---- MODULE Spec2Model ----
(***************************************************************************)
(* A model of technical_seo_auditor.py: the sitemap resolver               *)
(* (parse_sitemap), the page auditor (audit_html, compute_severity) and    *)
(* the report assembly of main.                                            *)
(*                                                                         *)
(* Strings are sequences, so that strip(), endswith() and startswith()     *)
(* are computed and not assumed.                                           *)
(***************************************************************************)
EXTENDS Integers, Sequences, FiniteSets, TLC

(***************************************************************************)
(* String helpers (Python str methods used by the program)                 *)
(***************************************************************************)
Whitespace == {" "}

RECURSIVE LStrip(_)
LStrip(s) == IF s # <<>> /\ Head(s) \in Whitespace THEN LStrip(Tail(s)) ELSE s

RECURSIVE RStrip(_)
RStrip(s) ==
  IF s # <<>> /\ s[Len(s)] \in Whitespace
  THEN RStrip(SubSeq(s, 1, Len(s) - 1))
  ELSE s

\* str.strip(): leading and trailing whitespace removed
Strip(s) == RStrip(LStrip(s))

\* str.endswith(suf)
EndsWith(s, suf) ==
  Len(s) >= Len(suf) /\ SubSeq(s, Len(s) - Len(suf) + 1, Len(s)) = suf

Range(s) == {s[i] : i \in 1..Len(s)}

DotXml == <<".xml">>

(***************************************************************************)
(* The sample world of sitemap documents                                   *)
(*                                                                         *)
(* A string is a sequence of chunks of characters, cut wherever the        *)
(* program cuts strings: whitespace, the URL scheme, "//", the host parts, *)
(* the path and the ".xml" suffix are chunks of their own.                 *)
(***************************************************************************)
\* at most this many children under the root element of a sitemap document
MaxChildren == 2

UrlA == <<"http:", "//", "a.io", "/a">>
UrlB == <<"http:", "//", "a.io", "/b", ".xml">>
UrlC == <<"http:", "//", "a.io", "/c">>

\* the root sitemap URLs given on the command line
RootUrls == {UrlA}

\* element tags: a namespace (possibly none) and a local name, "{ns}local"
Tag(ns, local) == [ns |-> ns, local |-> local]

\* child elements of a document root: a tag, and the text of its loc child
\* (hasLoc FALSE: the element has no loc child)
Child(tag, hasLoc, text) == [tag |-> tag, hasLoc |-> hasLoc, text |-> text]

SampleChildren ==
  { Child(Tag("", "sitemap"), TRUE, <<" ">> \o UrlA),
    Child(Tag("", "sitemap"), TRUE, UrlB),
    Child(Tag("sm", "sitemap"), TRUE, UrlC),
    Child(Tag("", "sitemap"), TRUE, <<" ">>),
    Child(Tag("", "sitemap"), FALSE, <<>>),
    Child(Tag("sm", "url"), TRUE, UrlC \o <<" ">>),
    Child(Tag("", "url"), TRUE, UrlA),
    Child(Tag("", "url"), TRUE, <<" ">>),
    Child(Tag("", "url"), TRUE, <<>>) }

SampleRootTags ==
  { Tag("sm", "sitemapindex"), Tag("", "URLSET"), Tag("", "rss") }

ChildLists == UNION {[1..n -> SampleChildren] : n \in 0..MaxChildren}

\* a well-formed XML document: its root tag and the root's children
XmlDocs == [root : SampleRootTags, children : ChildLists]

\* response bodies: "" (empty), text that is not XML, or an XML document
EmptyBody == [kind |-> "empty"]
MalformedBody == [kind |-> "malformed"]
XmlBody(doc) == [kind |-> "xml", doc |-> doc]

SampleUrlset ==
  [root |-> Tag("", "URLSET"),
   children |-> <<Child(Tag("", "url"), TRUE, UrlA)>>]

TransportFailure == [code |-> 0, body |-> EmptyBody]

\* what the network can answer for a sitemap URL
SitemapResponses ==
  { TransportFailure,
    [code |-> 404, body |-> XmlBody(SampleUrlset)],
    [code |-> 200, body |-> EmptyBody],
    [code |-> 200, body |-> MalformedBody] }
  \cup { [code |-> 200, body |-> XmlBody(d)] : d \in XmlDocs }

\* requests.get raises MissingSchema or InvalidSchema, both RequestException,
\* for a URL that does not start with http: or https:
HasHttpScheme(url) == url # <<>> /\ Head(url) \in {"http:", "https:"}

\* _fetch_text: the network's answer, or (0, "") on any RequestException
FetchText(url, answers) ==
  IF HasHttpScheme(url) THEN answers ELSE {TransportFailure}

(***************************************************************************)
(* parse_sitemap                                                           *)
(***************************************************************************)
\* elem.tag.split('}', 1)[1] when the tag carries a namespace
StripNamespace(tag) == tag.local

\* str.lower() on the tag names of the sample world
Lower(name) ==
  CASE name = "URLSET" -> "urlset"
    [] name = "SitemapIndex" -> "sitemapindex"
    [] OTHER -> name

\* root.findall(name): the direct children with that tag, in document order
FindAll(doc, name) ==
  SelectSeq(doc.children, LAMBDA c : StripNamespace(c.tag) = name)

\* root.findall(".//loc"): every loc element of the document, in document order
FindAllLoc(doc) == SelectSeq(doc.children, LAMBDA c : c.hasLoc)

\* loc is not None and loc.text
HasLocText(c) == c.hasLoc /\ c.text # <<>>

SeqMap(s, F(_)) == [i \in 1..Len(s) |-> F(s[i])]

StripText(c) == Strip(c.text)

\* the URLs a sitemapindex document appends to the queue
IndexNested(doc, visited) ==
  SelectSeq(SeqMap(SelectSeq(FindAll(doc, "sitemap"), HasLocText), StripText),
            LAMBDA u : u \notin visited)

\* the page URLs a urlset document appends to final_urls
UrlsetPages(doc) ==
  SeqMap(SelectSeq(FindAll(doc, "url"), HasLocText), StripText)

FallbackTexts(doc) ==
  SeqMap(SelectSeq(FindAllLoc(doc), LAMBDA c : c.text # <<>>), StripText)

\* the fallback scan: .xml texts go to the queue, the others to final_urls
FallbackNested(doc) ==
  SelectSeq(FallbackTexts(doc), LAMBDA u : EndsWith(u, DotXml))

FallbackPages(doc) ==
  SelectSeq(FallbackTexts(doc), LAMBDA u : ~EndsWith(u, DotXml))

RootName(doc) == Lower(StripNamespace(doc.root))

\* FetchFailed that looks at the body only, not at the status code
FetchFailedBodyOnly(resp) == resp.body.kind = "empty"

\* code != 200 or not xml_text
FetchFailed(resp) == resp.code # 200 \/ resp.body.kind = "empty"

\* ET.fromstring raises ParseError
ParseFails(resp) == resp.body.kind = "malformed"

\* what one processed node appends to the queue
NodeNested(resp, visited) ==
  IF FetchFailed(resp) \/ ParseFails(resp) THEN <<>>
  ELSE IF RootName(resp.body.doc) = "sitemapindex"
       THEN IndexNested(resp.body.doc, visited)
  ELSE IF RootName(resp.body.doc) = "urlset" THEN <<>>
  ELSE FallbackNested(resp.body.doc)

\* NodePages with the nested sitemaps of an index taken for pages as well
NodePagesIndexToo(resp) ==
  IF FetchFailed(resp) \/ ParseFails(resp) THEN <<>>
  ELSE IF RootName(resp.body.doc) = "sitemapindex"
       THEN IndexNested(resp.body.doc, {})
  ELSE IF RootName(resp.body.doc) = "urlset"
       THEN UrlsetPages(resp.body.doc)
  ELSE FallbackPages(resp.body.doc)

\* what one processed node appends to final_urls
NodePages(resp) ==
  IF FetchFailed(resp) \/ ParseFails(resp) THEN <<>>
  ELSE IF RootName(resp.body.doc) = "sitemapindex" THEN <<>>
  ELSE IF RootName(resp.body.doc) = "urlset"
       THEN UrlsetPages(resp.body.doc)
  ELSE FallbackPages(resp.body.doc)

\* QueueAfter with break in the place of continue: a failed node ends the loop
QueueAfterAbort(rest, resp, nested) ==
  IF FetchFailed(resp) \/ ParseFails(resp) THEN <<>> ELSE rest \o nested

\* QueueAfter as a stack: the nested sitemaps go to the front of the queue
QueueAfterPrepend(rest, resp, nested) == nested \o rest

\* the queue after the iteration that processed a node: a failed node is
\* skipped (continue), the rest of the queue stays
QueueAfter(rest, resp, nested) == rest \o nested

\* AlreadySeen without the visited set
AlreadySeenNever(url, visited) == FALSE

\* current_url in seen
AlreadySeen(url, visited) == url \in visited

\* PopRest reading queue[0] and leaving it in the queue
PopRestKeeps(q) == q

\* queue.pop(0): what is left of the queue
PopRest(q) == Tail(q)

\* list(set(final_urls)): the distinct URLs, in the set's iteration order,
\* which depends on the process's string hashing
Orderings(S) ==
  {f \in [1..Cardinality(S) -> S] : \A i, j \in 1..Cardinality(S) : f[i] = f[j] => i = j}

\* DistinctUrls without the set: final_urls as it is
DistinctUrlsKept(found) == {found}

DistinctUrls(found) == Orderings(Range(found))

(***************************************************************************)
(* What a sitemap response says, read off the document itself (used by     *)
(* the properties, not by the program)                                     *)
(***************************************************************************)
ResponseKind(resp) ==
  IF resp.code # 200 \/ resp.body.kind = "empty" THEN "failed"
  ELSE IF resp.body.kind = "malformed" THEN "malformed"
  ELSE IF resp.body.doc.root.local \in {"sitemapindex", "SitemapIndex"}
       THEN "sitemapindex"
  ELSE IF resp.body.doc.root.local \in {"urlset", "URLSET"} THEN "urlset"
  ELSE "other"

\* the trimmed, non-empty-before-trimming loc texts under children named
\* `local` (any local name when local = "*")
ListedUnder(resp, local) ==
  IF resp.code # 200 \/ resp.body.kind # "xml" THEN {}
  ELSE LET cs == resp.body.doc.children
       IN {Strip(cs[i].text) :
             i \in {k \in 1..Len(cs) :
                      /\ cs[k].hasLoc
                      /\ Len(cs[k].text) > 0
                      /\ local \in {"*", cs[k].tag.local}}}

Listed(resp) ==
  LET kind == ResponseKind(resp)
  IN IF kind = "sitemapindex" THEN ListedUnder(resp, "sitemap")
     ELSE IF kind = "urlset" THEN ListedUnder(resp, "url")
     ELSE IF kind = "other" THEN ListedUnder(resp, "*")
     ELSE {}

(***************************************************************************)
(* Pages: what the markup parser exposes of a fetched page                 *)
(***************************************************************************)
THIN_CONTENT_THRESHOLD == 300
TITLE_MIN_LEN == 30
TITLE_MAX_LEN == 60
DESC_MIN_LEN == 50
DESC_MAX_LEN == 160

\* a text of n characters
Chars(n) == [i \in 1..n |-> "x"]

\* words: the number of WORD_RE tokens in the page's text
\* hasTitle, title: the first title element and its text
\* hasDesc, desc: the first meta name=description with a content attribute
\* hasCanon, canon: the first link rel=canonical with a href attribute
\* h1: the number of h1 elements; ids: the id attribute values
\* anchors: the href of each a element (<<>> when it has none)
\* imgAlts: the alt of each img element (<<>> when it has none)
Page(words, hasTitle, title, hasDesc, desc, hasCanon, canon, h1, ids, anchors, imgAlts) ==
  [words |-> words, hasTitle |-> hasTitle, title |-> title,
   hasDesc |-> hasDesc, desc |-> desc, hasCanon |-> hasCanon, canon |-> canon,
   h1 |-> h1, ids |-> ids, anchors |-> anchors, imgAlts |-> imgAlts]

HtmlBody(page) == [kind |-> "html", page |-> page]

(***************************************************************************)
(* audit_html                                                              *)
(***************************************************************************)
\* TitleStatus with the lower bound taken exclusive
TitleStatusExclusive(t_len) ==
  IF t_len = 0 THEN "MISSING"
  ELSE IF t_len <= TITLE_MIN_LEN THEN "TOO_SHORT"
  ELSE IF t_len > TITLE_MAX_LEN THEN "TOO_LONG"
  ELSE "OK"

\* the length buckets of the title
TitleStatus(t_len) ==
  IF t_len = 0 THEN "MISSING"
  ELSE IF t_len < TITLE_MIN_LEN THEN "TOO_SHORT"
  ELSE IF t_len > TITLE_MAX_LEN THEN "TOO_LONG"
  ELSE "OK"

\* the length buckets of the meta description
DescStatus(d_len) ==
  IF d_len = 0 THEN "MISSING"
  ELSE IF d_len < DESC_MIN_LEN THEN "TOO_SHORT"
  ELSE IF d_len > DESC_MAX_LEN THEN "TOO_LONG"
  ELSE "OK"

\* str.rstrip('/')
RECURSIVE RStripSlash(_)
RStripSlash(s) ==
  IF s # <<>> /\ s[Len(s)] = "/" THEN RStripSlash(SubSeq(s, 1, Len(s) - 1)) ELSE s

\* CanonicalStatus comparing the strings as they are, slashes included
CanonicalStatusExact(canon_href, url) ==
  IF canon_href = <<>> THEN "MISSING"
  ELSE IF canon_href = url THEN "SELF"
  ELSE "OTHER"

CanonicalStatus(canon_href, url) ==
  IF canon_href = <<>> THEN "MISSING"
  ELSE IF RStripSlash(canon_href) = RStripSlash(url) THEN "SELF"
  ELSE "OTHER"

\* str.startswith(prefix)
StartsWith(s, prefix) ==
  Len(s) >= Len(prefix) /\ SubSeq(s, 1, Len(prefix)) = prefix

\* str.lower() on the host chunks of the sample world
LowerChunk(c) ==
  CASE c = "A.IO" -> "a.io"
    [] c = "WWW" -> "www"
    [] OTHER -> c

Schemes == {"http:", "https:", "mailto:", "tel:", "javascript:", "ftp:"}

\* urlparse(href): the text after the scheme
AfterScheme(href) ==
  IF href # <<>> /\ Head(href) \in Schemes THEN Tail(href) ELSE href

\* the chunks that end a netloc: the start of a path, a query or a fragment
EndsNetloc(c) == c \in {"/", "?", "#", "/a", "/b", "/c", "/p"}

RECURSIVE UpToPath(_)
UpToPath(s) ==
  IF s = <<>> \/ EndsNetloc(Head(s)) THEN <<>>
  ELSE <<Head(s)>> \o UpToPath(Tail(s))

\* urlparse(href).netloc
Netloc(href) ==
  LET rest == AfterScheme(href)
  IN IF StartsWith(rest, <<"//">>) THEN UpToPath(Tail(rest)) ELSE <<>>

\* _get_domain
GetDomain(href) ==
  LET host == SeqMap(Netloc(href), LowerChunk)
  IN IF StartsWith(host, <<"www", ".">>) THEN SubSeq(host, 3, Len(host)) ELSE host

SkippedHref(href) ==
  \/ href = <<>>
  \/ StartsWith(href, <<"mailto:">>)
  \/ StartsWith(href, <<"tel:">>)
  \/ StartsWith(href, <<"javascript:">>)

IsFragment(href) == StartsWith(href, <<"#">>)

\* IsBrokenAnchor without the test for a fragment after the #
IsBrokenAnchorBare(href, ids) ==
  /\ ~SkippedHref(href)
  /\ IsFragment(href)
  /\ Tail(href) \notin ids

\* an a element counted as a broken in-page anchor
IsBrokenAnchor(href, ids) ==
  /\ ~SkippedHref(href)
  /\ IsFragment(href)
  /\ Len(href) > 1
  /\ Tail(href) \notin ids

\* IsInternal without the suffix match that admits subdomains
IsInternalExactHost(href, domain) ==
  /\ ~SkippedHref(href)
  /\ ~IsFragment(href)
  /\ LET link_domain == GetDomain(href)
     IN \/ link_domain = <<>>
        \/ link_domain = domain

\* an a element counted as an internal link
IsInternal(href, domain) ==
  /\ ~SkippedHref(href)
  /\ ~IsFragment(href)
  /\ LET link_domain == GetDomain(href)
     IN \/ link_domain = <<>>
        \/ link_domain = domain
        \/ EndsWith(link_domain, <<".">> \o domain)

\* an a element counted as an external link
IsExternal(href, domain) ==
  /\ ~SkippedHref(href)
  /\ ~IsFragment(href)
  /\ ~IsInternal(href, domain)

Count(s, P(_)) == Len(SelectSeq(s, P))

audit_html(url, page, domain) ==
  LET title == IF page.hasTitle THEN Strip(page.title) ELSE <<>>
      meta_desc == IF page.hasDesc /\ page.desc # <<>> THEN Strip(page.desc) ELSE <<>>
      canon_href == IF page.hasCanon /\ page.canon # <<>> THEN Strip(page.canon) ELSE <<>>
  IN [word_count |-> page.words,
      is_thin_content |-> IF page.words < THIN_CONTENT_THRESHOLD THEN 1 ELSE 0,
      title |-> title,
      title_len |-> Len(title),
      title_status |-> TitleStatus(Len(title)),
      meta_desc |-> meta_desc,
      meta_desc_len |-> Len(meta_desc),
      meta_desc_status |-> DescStatus(Len(meta_desc)),
      h1_count |-> page.h1,
      canonical_link |-> canon_href,
      canonical_status |-> CanonicalStatus(canon_href, url),
      internal_links |-> Count(page.anchors, LAMBDA h : IsInternal(h, domain)),
      external_links |-> Count(page.anchors, LAMBDA h : IsExternal(h, domain)),
      broken_anchors |-> Count(page.anchors, LAMBDA h : IsBrokenAnchor(h, page.ids)),
      img_missing_alt |-> Count(page.imgAlts, LAMBDA alt : alt = <<>>)]

(***************************************************************************)
(* compute_severity                                                        *)
(***************************************************************************)
\* compute_severity with the content rules tried before the structural ones
compute_severity_content_first(m) ==
  IF m.http_status >= 400 THEN "ERROR"
  ELSE IF m.is_thin_content # 0 THEN "WARN"
  ELSE IF m.meta_desc_status # "OK" THEN "WARN"
  ELSE IF m.h1_count = 0 THEN "ERROR"
  ELSE IF m.canonical_status = "MISSING" THEN "ERROR"
  ELSE IF m.title_status = "MISSING" THEN "ERROR"
  ELSE IF m.title_status # "OK" THEN "WARN"
  ELSE IF m.broken_anchors > 0 THEN "WARN"
  ELSE IF m.img_missing_alt > 0 THEN "WARN"
  ELSE "OK"

compute_severity(m) ==
  IF m.http_status >= 400 THEN "ERROR"
  ELSE IF m.h1_count = 0 THEN "ERROR"
  ELSE IF m.canonical_status = "MISSING" THEN "ERROR"
  ELSE IF m.title_status = "MISSING" THEN "ERROR"
  ELSE IF m.is_thin_content # 0 THEN "WARN"
  ELSE IF m.meta_desc_status # "OK" THEN "WARN"
  ELSE IF m.title_status # "OK" THEN "WARN"
  ELSE IF m.broken_anchors > 0 THEN "WARN"
  ELSE IF m.img_missing_alt > 0 THEN "WARN"
  ELSE "OK"

(***************************************************************************)
(* main                                                                    *)
(***************************************************************************)
\* str.replace("www.", ""): every occurrence removed
RECURSIVE RemoveWww(_)
RemoveWww(s) ==
  IF s = <<>> THEN <<>>
  ELSE IF StartsWith(s, <<"www", ".">>) THEN RemoveWww(SubSeq(s, 3, Len(s)))
  ELSE <<Head(s)>> \o RemoveWww(Tail(s))

\* domain = (urlparse(args.sitemap).netloc or "").replace("www.", "")
RootDomain(sitemap) == RemoveWww(Netloc(sitemap))

\* NoPagesFound without the early return
NoPagesFoundIgnored(found) == FALSE

\* not urls
NoPagesFound(found) == found = <<>>

\* PageFetchFailed taking only server errors for failures
PageFetchFailedServerOnly(resp) == resp.code >= 500 \/ resp.body.kind = "empty"

\* status >= 400 or not html
PageFetchFailed(resp) == resp.code >= 400 \/ resp.body.kind = "empty"

\* the record of a page whose fetch failed
FallbackData ==
  [word_count |-> 0, is_thin_content |-> 0, title |-> <<>>, title_len |-> 0,
   title_status |-> "MISSING", meta_desc |-> <<>>, meta_desc_len |-> 0,
   meta_desc_status |-> "MISSING", h1_count |-> 0, canonical_link |-> <<>>,
   canonical_status |-> "MISSING", internal_links |-> 0, external_links |-> 0,
   broken_anchors |-> 0, img_missing_alt |-> 0]

\* r1 with the fields of r2 added
Merge(r1, r2) ==
  [k \in DOMAIN r1 \cup DOMAIN r2 |-> IF k \in DOMAIN r2 THEN r2[k] ELSE r1[k]]

\* one iteration of the audit loop: the SeoMetrics of one page
AuditRecord(url, resp, domain) ==
  LET data == IF PageFetchFailed(resp) THEN FallbackData
              ELSE audit_html(url, resp.body.page, domain)
      withStatus == Merge(data, [http_status |-> resp.code])
  IN Merge(withStatus, [url |-> url, severity |-> compute_severity(withStatus)])

\* the sort key of the report
SortKey(r) ==
  IF r.severity = "ERROR" THEN 0 ELSE IF r.severity = "WARN" THEN 1 ELSE 2

\* InsertSorted putting an element before its equals: an unstable sort
RECURSIVE InsertBeforeEquals(_, _)
InsertBeforeEquals(r, sorted) ==
  IF sorted = <<>> THEN <<r>>
  ELSE IF SortKey(sorted[Len(sorted)]) < SortKey(r) THEN Append(sorted, r)
  ELSE Append(InsertBeforeEquals(r, SubSeq(sorted, 1, Len(sorted) - 1)),
              sorted[Len(sorted)])

\* list.sort(key=...) is stable: each element goes behind every element
\* already placed whose key is not larger
RECURSIVE InsertSorted(_, _)
InsertSorted(r, sorted) ==
  IF sorted = <<>> THEN <<r>>
  ELSE IF SortKey(sorted[Len(sorted)]) <= SortKey(r) THEN Append(sorted, r)
  ELSE Append(InsertSorted(r, SubSeq(sorted, 1, Len(sorted) - 1)), sorted[Len(sorted)])

RECURSIVE SortRows(_)
SortRows(rs) ==
  IF rs = <<>> THEN <<>>
  ELSE InsertSorted(rs[Len(rs)], SortRows(SubSeq(rs, 1, Len(rs) - 1)))

Headers ==
  <<"severity", "http_status", "url",
    "title_status", "title_len", "title",
    "meta_desc_status", "meta_desc_len", "meta_desc",
    "canonical_status", "canonical_link",
    "h1_count", "word_count", "is_thin_content",
    "internal_links", "external_links", "broken_anchors", "img_missing_alt">>

\* [getattr(r, h) for h in headers]
CsvRow(r) == [i \in 1..Len(Headers) |-> r[Headers[i]]]

\* the output file before open(args.out, "w")
NoFile == [written |-> FALSE, lines |-> <<>>]

\* ReportFile that writes the rows behind the first only
ReportFileWithoutFirst(sorted) ==
  [written |-> TRUE, lines |-> <<Headers>> \o SeqMap(Tail(sorted), CsvRow)]

\* the output file after the with block
ReportFile(sorted) ==
  [written |-> TRUE, lines |-> <<Headers>> \o SeqMap(sorted, CsvRow)]

(***************************************************************************)
(* The sample world of pages                                               *)
(***************************************************************************)
PageOther == <<"http:", "//", "www", ".", "a.io", "/p">>

GoodPage ==
  Page(300, TRUE, Chars(30), TRUE, Chars(50), TRUE, PageOther, 1,
       {<<"top">>},
       << <<"#", "top">>, <<"/p">>, <<"http:", "//", "b.io", "/p">> >>,
       << <<"logo">> >>)

\* a page whose only issue is an image without alt text
NoAltPage ==
  Page(300, TRUE, Chars(30), TRUE, Chars(50), TRUE, PageOther, 1,
       {}, << <<"#">> >>, << <<>> >>)

\* what the network can answer for a page URL
PageResponses ==
  { TransportFailure,
    [code |-> 404, body |-> HtmlBody(GoodPage)],
    [code |-> 200, body |-> EmptyBody],
    [code |-> 200, body |-> HtmlBody(GoodPage)],
    [code |-> 200, body |-> HtmlBody(NoAltPage)] }

VARIABLES
  pc,             \* where the run is: "resolve", "returned", "audit", "done"
  sitemap_input,  \* args.sitemap
  queue,          \* parse_sitemap: the work queue
  seen,           \* parse_sitemap: the visited set
  final_urls,     \* parse_sitemap: the page URLs found, with repetitions
  urls,           \* main: the list parse_sitemap returned
  fetchLog,       \* history: every call of _fetch_text: <<"sitemap"|"page", url>>
  nodeLog,        \* history: per fetched sitemap node [url, kind, listed] and
                  \* how many URLs it enqueued (enq) and emitted (emitted)
  enqLog,         \* history: every URL appended to the queue, in order
  rows,           \* main: the SeoMetrics records, in audit order until sorted
  out,            \* the output file
  pageLog,        \* history: per audited page [url, code, empty]
  arg,            \* the argument of a function called on its own
  result          \* what that call returned

resolverVars == <<queue, seen, final_urls, nodeLog, enqLog>>
reportVars == <<rows, out, pageLog>>
callVars == <<arg, result>>
runVars == <<pc, sitemap_input, urls, fetchLog, resolverVars, reportVars>>
vars == <<runVars, callVars>>

NoCall == [fn |-> "none"]

Init ==
  /\ pc = "resolve"
  /\ sitemap_input \in RootUrls
  /\ queue = <<sitemap_input>>
  /\ seen = {}
  /\ final_urls = <<>>
  /\ urls = <<>>
  /\ fetchLog = <<>>
  /\ nodeLog = <<>>
  /\ enqLog = <<sitemap_input>>
  /\ rows = <<>>
  /\ out = NoFile
  /\ pageLog = <<>>
  /\ arg = NoCall
  /\ result = NoCall

\* one iteration of the while loop whose URL was already visited
DequeueSeen ==
  /\ pc = "resolve"
  /\ queue # <<>>
  /\ AlreadySeen(Head(queue), seen)
  /\ queue' = PopRest(queue)
  /\ UNCHANGED <<pc, sitemap_input, seen, final_urls, urls, fetchLog, nodeLog, enqLog, reportVars, callVars>>

\* one iteration of the while loop that fetches and dispatches a node
ProcessNode ==
  /\ pc = "resolve"
  /\ queue # <<>>
  /\ ~AlreadySeen(Head(queue), seen)
  /\ \E resp \in FetchText(Head(queue), SitemapResponses) :
       LET current_url == Head(queue)
           visited == seen \cup {current_url}
           nested == NodeNested(resp, visited)
       IN /\ seen' = visited
          /\ fetchLog' = Append(fetchLog, <<"sitemap", current_url>>)
          /\ nodeLog' = Append(nodeLog, [url |-> current_url,
                                         kind |-> ResponseKind(resp),
                                         listed |-> Listed(resp),
                                         enq |-> Len(nested),
                                         emitted |-> Len(NodePages(resp))])
          /\ queue' = QueueAfter(PopRest(queue), resp, nested)
          /\ enqLog' = enqLog \o nested
          /\ final_urls' = final_urls \o NodePages(resp)
  /\ UNCHANGED <<pc, sitemap_input, urls, reportVars, callVars>>

\* the loop ends on an empty queue and parse_sitemap returns
ReturnUrls ==
  /\ pc = "resolve"
  /\ queue = <<>>
  /\ urls' \in DistinctUrls(final_urls)
  /\ pc' = "returned"
  /\ UNCHANGED <<sitemap_input, fetchLog, resolverVars, reportVars, callVars>>

ResolveNext == DequeueSeen \/ ProcessNode \/ ReturnUrls

\* parse_sitemap called on its own
ResolveSpec == Init /\ [][ResolveNext]_vars

\* the loop of parse_sitemap runs on: no step is left undone for ever
FairResolveSpec == ResolveSpec /\ WF_vars(ResolveNext)

\* the frame of parse_sitemap is gone once main goes on
DropResolverFrame ==
  /\ queue' = <<>>
  /\ seen' = {}
  /\ final_urls' = <<>>
  /\ nodeLog' = <<>>
  /\ enqLog' = <<>>

\* main: "No page URLs found", and the run ends
ExitNoPages ==
  /\ pc = "returned"
  /\ NoPagesFound(urls)
  /\ pc' = "done"
  /\ DropResolverFrame
  /\ UNCHANGED <<sitemap_input, urls, fetchLog, reportVars, callVars>>

\* main: "Found n pages to audit"
BeginAudit ==
  /\ pc = "returned"
  /\ ~NoPagesFound(urls)
  /\ pc' = "audit"
  /\ DropResolverFrame
  /\ UNCHANGED <<sitemap_input, urls, fetchLog, reportVars, callVars>>

\* main: one iteration of the audit loop
AuditPage ==
  /\ pc = "audit"
  /\ Len(rows) < Len(urls)
  /\ LET url == urls[Len(rows) + 1]
     IN \E resp \in FetchText(url, PageResponses) :
          /\ fetchLog' = Append(fetchLog, <<"page", url>>)
          /\ pageLog' = Append(pageLog, [url |-> url, code |-> resp.code,
                                         empty |-> resp.body.kind = "empty"])
          /\ rows' = Append(rows, AuditRecord(url, resp, RootDomain(sitemap_input)))
  /\ UNCHANGED <<pc, sitemap_input, urls, resolverVars, out, callVars>>

\* main: the report is sorted and written
SaveReport ==
  /\ pc = "audit"
  /\ Len(rows) = Len(urls)
  /\ rows' = SortRows(rows)
  /\ out' = ReportFile(rows')
  /\ pc' = "done"
  /\ UNCHANGED <<sitemap_input, urls, fetchLog, resolverVars, pageLog, callVars>>

Next ==
  \/ DequeueSeen
  \/ ProcessNode
  \/ ReturnUrls
  \/ ExitNoPages
  \/ BeginAudit
  \/ AuditPage
  \/ SaveReport

\* one run of main
Spec == Init /\ [][Next]_vars

(***************************************************************************)
(* Functions called on their own                                           *)
(***************************************************************************)
\* no run of main is under way
NoRun ==
  /\ pc = "call"
  /\ sitemap_input = <<>>
  /\ queue = <<>>
  /\ seen = {}
  /\ final_urls = <<>>
  /\ urls = <<>>
  /\ fetchLog = <<>>
  /\ nodeLog = <<>>
  /\ enqLog = <<>>
  /\ rows = <<>>
  /\ out = NoFile
  /\ pageLog = <<>>

\* counts of the sample records go up to this
MaxCount == 3

SampleStatuses == {0, 200, 399, 400, 404, 500}
TextStatuses == {"MISSING", "TOO_SHORT", "OK", "TOO_LONG"}

SeverityInputs ==
  [http_status : SampleStatuses, h1_count : 0..MaxCount,
   canonical_status : {"MISSING", "SELF", "OTHER"}, title_status : TextStatuses,
   is_thin_content : {0, 1}, meta_desc_status : TextStatuses,
   broken_anchors : 0..MaxCount, img_missing_alt : 0..MaxCount]

SeverityInit ==
  /\ NoRun
  /\ arg \in SeverityInputs
  /\ result = NoCall

CallComputeSeverity ==
  /\ result = NoCall
  /\ result' = [fn |-> "compute_severity", value |-> compute_severity(arg)]
  /\ UNCHANGED <<runVars, arg>>

\* compute_severity called on every sample record
SeveritySpec == SeverityInit /\ [][CallComputeSeverity]_vars

\* the longest title and meta description of the sample pages
MaxTitleLen == 62
MaxDescLen == 162

\* a page with a title of t and a meta description of d characters, both
\* between white space when padded; no title element when there is nothing
\* to put in it
LengthPage(t, d, padded) ==
  LET pad == IF padded THEN <<" ">> ELSE <<>>
  IN Page(300, t > 0 \/ padded, pad \o Chars(t) \o pad,
          d > 0 \/ padded, pad \o Chars(d) \o pad,
          TRUE, UrlC, 1, {}, <<>>, <<>>)

LengthInit ==
  /\ NoRun
  /\ arg \in [t : 0..MaxTitleLen, d : 0..MaxDescLen, padded : BOOLEAN]
  /\ result = NoCall

CallAuditHtml ==
  /\ result = NoCall
  /\ result' = [fn |-> "audit_html",
                value |-> audit_html(UrlC, LengthPage(arg.t, arg.d, arg.padded),
                                     RootDomain(UrlA))]
  /\ UNCHANGED <<runVars, arg>>

\* audit_html called on pages with every title and description length
LengthSpec == LengthInit /\ [][CallAuditHtml]_vars

(***************************************************************************)
(* Properties of parse_sitemap                                             *)
(***************************************************************************)
SitemapFetches == SelectSeq(fetchLog, LAMBDA e : e[1] = "sitemap")

NodesOfKind(kinds) == {i \in 1..Len(nodeLog) : nodeLog[i].kind \in kinds}

\* C1: during one resolution no sitemap URL is fetched twice, whatever the
\* sitemap graph (nesting, repeated references, self-references, cycles)
\* and whatever the fetches return.
C1_EachSitemapFetchedOnce ==
  \A i, j \in 1..Len(SitemapFetches) :
    SitemapFetches[i][2] = SitemapFetches[j][2] => i = j

\* a resolution that ended on a cycle: two sitemapindex documents that list
\* each other, and a URL that was put on the queue more than once
C1_Witness ==
  /\ pc = "returned"
  /\ \E i, j \in NodesOfKind({"sitemapindex"}) :
       /\ i # j
       /\ nodeLog[i].url \in nodeLog[j].listed
       /\ nodeLog[j].url \in nodeLog[i].listed
  /\ \E i, j \in 1..Len(enqLog) : i # j /\ enqLog[i] = enqLog[j]

\* C2: parse_sitemap terminates on every sitemap graph over a finite set of
\* URLs: the queue runs empty and a result is returned.
C2_ResolutionTerminates == <>(pc = "returned")

\* a returned resolution of a graph with a self-reference, a document of
\* unknown root, and a URL queued twice
C2_Witness ==
  /\ pc = "returned"
  /\ queue = <<>>
  /\ \E i \in NodesOfKind({"sitemapindex"}) : nodeLog[i].url \in nodeLog[i].listed
  /\ NodesOfKind({"other"}) # {}
  /\ \E i, j \in 1..Len(enqLog) : i # j /\ enqLog[i] = enqLog[j]

\* C3: the returned list holds no URL twice.
C3_ResultHasNoDuplicates ==
  \A i, j \in 1..Len(urls) : urls[i] = urls[j] => i = j

\* a result drawn from a page URL listed by two documents and found more
\* often than it is returned
C3_Witness ==
  /\ pc = "returned"
  /\ urls # <<>>
  /\ Len(final_urls) > Len(urls) + 1
  /\ \E i, j \in NodesOfKind({"urlset", "other"}) :
       i # j /\ nodeLog[i].listed \cap nodeLog[j].listed \cap Range(urls) # {}

\* the URLs dispatched as sitemapindex documents
IndexUrls == {nodeLog[i].url : i \in NodesOfKind({"sitemapindex"})}

\* the URLs put on the queue as nested sitemaps
NestedUrls == {enqLog[i] : i \in 2..Len(enqLog)}

\* u was listed as a page: in a url entry of a urlset, or in a loc not
\* ending in .xml of a document of unknown root
ListedAsPage(u) ==
  \E i \in NodesOfKind({"urlset", "other"}) :
    /\ u \in nodeLog[i].listed
    /\ nodeLog[i].kind = "other" => ~EndsWith(u, DotXml)

\* C4 as stated: the result holds no URL that was dispatched as a
\* sitemapindex document or put on the queue as a nested sitemap.
C4_NoSitemapUrlInResult ==
  pc = "returned" => Range(urls) \cap (IndexUrls \cup NestedUrls) = {}

\* C4 as amended: every URL of the result was listed as a page by a fetched
\* urlset or unknown-root document; a sitemapindex document adds none, so a
\* sitemap URL is in the result only when such a document lists it as a page.
C4_ResultOnlyListedPages ==
  pc = "returned" => \A u \in Range(urls) : ListedAsPage(u)

\* a result next to sitemapindex documents that listed nested sitemaps, none
\* of which is in the result
C4_Witness ==
  /\ pc = "returned"
  /\ urls # <<>>
  /\ Cardinality(IndexUrls) >= 2
  /\ NestedUrls # {}
  /\ Range(urls) \cap (IndexUrls \cup NestedUrls) = {}

\* C5: a node that fails (status not 200, empty body, malformed XML) is
\* skipped and the resolution goes on: the root and every sitemap listed by
\* a parsed sitemapindex are fetched, and every page URL listed by a parsed
\* urlset is in the result.
C5_FailuresOnlyReduceCoverage ==
  pc = "returned" =>
    /\ sitemap_input \in seen
    /\ seen = {nodeLog[i].url : i \in 1..Len(nodeLog)}
    /\ \A i \in NodesOfKind({"sitemapindex"}) : nodeLog[i].listed \subseteq seen
    /\ \A i \in NodesOfKind({"urlset"}) : nodeLog[i].listed \subseteq Range(urls)

\* a failed or malformed node followed by a urlset whose pages are returned
C5_Witness ==
  /\ pc = "returned"
  /\ \E i \in NodesOfKind({"failed", "malformed"}), j \in NodesOfKind({"urlset"}) :
       /\ i < j
       /\ nodeLog[j].listed # {}
       /\ nodeLog[j].listed \subseteq Range(urls)

(***************************************************************************)
(* Properties of compute_severity                                          *)
(***************************************************************************)
\* rule i of the cascade matches record m
RuleMatches(i, m) ==
  CASE i = 1 -> m.http_status >= 400
    [] i = 2 -> m.h1_count = 0
    [] i = 3 -> m.canonical_status = "MISSING"
    [] i = 4 -> m.title_status = "MISSING"
    [] i = 5 -> m.is_thin_content = 1
    [] i = 6 -> m.meta_desc_status # "OK"
    [] i = 7 -> m.title_status # "OK"
    [] i = 8 -> m.broken_anchors > 0
    [] i = 9 -> m.img_missing_alt > 0
    [] i = 10 -> TRUE

RuleOutcome(i) == IF i <= 4 THEN "ERROR" ELSE IF i <= 9 THEN "WARN" ELSE "OK"

FirstMatch(m) ==
  CHOOSE i \in 1..10 : RuleMatches(i, m) /\ \A k \in 1..(i - 1) : ~RuleMatches(k, m)

\* C6: compute_severity returns the outcome of the first matching rule of
\* the ten-rule cascade; so a record with status >= 400, no h1, a missing
\* canonical or a missing title is ERROR whatever its content fields, and a
\* record whose only issue is img_missing_alt > 0 is WARN.
C6_SeverityIsFirstMatch ==
  result # NoCall =>
    /\ result.value = RuleOutcome(FirstMatch(arg))
    /\ (\E i \in 1..4 : RuleMatches(i, arg)) => result.value = "ERROR"
    /\ (RuleMatches(9, arg) /\ \A i \in 1..8 : ~RuleMatches(i, arg))
         => result.value = "WARN"

\* a record with no h1 that also matches content rules, classified
C6_WitnessStructuralFirst ==
  /\ result # NoCall
  /\ arg.http_status = 200
  /\ arg.h1_count = 0
  /\ arg.is_thin_content = 1
  /\ arg.meta_desc_status = "TOO_SHORT"
  /\ arg.broken_anchors > 0
  /\ result.value = "ERROR"

(***************************************************************************)
(* Properties of a run of main                                             *)
(***************************************************************************)
\* the record of the page at url
RowOf(url) == CHOOSE r \in Range(rows) : r.url = url

\* C7: a page whose fetch fails (status >= 400, or an empty body, which
\* covers status 0) gets a record with the returned status, empty title,
\* description and canonical, all three statuses MISSING, all counts zero,
\* and severity ERROR.
C7_FailedFetchRecord ==
  \A i \in 1..Len(pageLog) :
    (pageLog[i].code >= 400 \/ pageLog[i].empty) =>
      LET r == RowOf(pageLog[i].url)
      IN /\ r.http_status = pageLog[i].code
         /\ r.title = <<>> /\ r.meta_desc = <<>> /\ r.canonical_link = <<>>
         /\ r.title_status = "MISSING"
         /\ r.meta_desc_status = "MISSING"
         /\ r.canonical_status = "MISSING"
         /\ r.word_count = 0 /\ r.title_len = 0 /\ r.meta_desc_len = 0
         /\ r.h1_count = 0 /\ r.internal_links = 0 /\ r.external_links = 0
         /\ r.broken_anchors = 0 /\ r.img_missing_alt = 0
         /\ r.severity = "ERROR"

\* a finished run with three failed pages: a 404 with a body, a transport
\* failure, and a 200 with an empty body
C7_Witness ==
  /\ pc = "done"
  /\ \E i, j, k \in 1..Len(pageLog) :
       /\ pageLog[i].code = 404 /\ ~pageLog[i].empty
       /\ pageLog[j].code = 0
       /\ pageLog[k].code = 200 /\ pageLog[k].empty

\* the rows of the written report, without the header row
ReportRows == Tail(out.lines)

SeverityRank(sev) ==
  CASE sev = "ERROR" -> 1 [] sev = "WARN" -> 2 [] sev = "OK" -> 3

\* the place of a page in the order of auditing
AuditPlace(url) == CHOOSE i \in 1..Len(pageLog) : pageLog[i].url = url

\* C8: in the written report ERROR rows come before WARN rows and WARN rows
\* before OK rows, and rows of equal severity keep their order of auditing.
C8_ReportSortedStable ==
  out.written =>
    /\ Len(ReportRows) = Len(pageLog)
    /\ \A i, j \in 1..Len(ReportRows) :
         i < j =>
           /\ SeverityRank(ReportRows[i][1]) <= SeverityRank(ReportRows[j][1])
           /\ ReportRows[i][1] = ReportRows[j][1]
                => AuditPlace(ReportRows[i][3]) < AuditPlace(ReportRows[j][3])

\* a report of three rows that the sort had to reorder: the page audited
\* first is not in the first row, an ERROR row leads, and the two rows behind
\* it are successfully audited pages of equal severity
C8_Witness ==
  /\ out.written
  /\ Len(ReportRows) = 3
  /\ AuditPlace(ReportRows[1][3]) # 1
  /\ ReportRows[1][1] = "ERROR"
  /\ ReportRows[2][1] = ReportRows[3][1]
  /\ ReportRows[2][1] \in {"WARN", "OK"}

PageFetches == SelectSeq(fetchLog, LAMBDA e : e[1] = "page")

\* C9: when the resolution returns no page URL the run ends without a page
\* fetch and without an output file; the file is written only in runs that
\* resolved at least one page URL.
C9_NoPagesNoReport ==
  /\ (pc \in {"returned", "audit", "done"} /\ urls = <<>>) =>
       /\ pc \in {"returned", "done"}
       /\ PageFetches = <<>>
       /\ out = NoFile
  /\ out # NoFile => urls # <<>>

\* a run that ended on an empty result after fetching several sitemaps
C9_Witness ==
  /\ pc = "done"
  /\ urls = <<>>
  /\ Len(fetchLog) >= 2
  /\ out = NoFile

(***************************************************************************)
(* Properties of the length buckets of audit_html                          *)
(***************************************************************************)
\* C10: the buckets are total with inclusive bounds: a title of n characters
\* is MISSING iff n = 0, TOO_SHORT iff 1 <= n <= 29, OK iff 30 <= n <= 60,
\* TOO_LONG iff n > 60; a trimmed meta description likewise with 50 and 160.
C10_LengthBuckets ==
  result # NoCall =>
    LET n == result.value.title_len
        ts == result.value.title_status
        k == result.value.meta_desc_len
        ds == result.value.meta_desc_status
    IN /\ n = arg.t /\ k = arg.d
       /\ ts \in TextStatuses /\ ds \in TextStatuses
       /\ ts = "MISSING" <=> n = 0
       /\ ts = "TOO_SHORT" <=> (1 <= n /\ n <= 29)
       /\ ts = "OK" <=> (30 <= n /\ n <= 60)
       /\ ts = "TOO_LONG" <=> n > 60
       /\ ds = "MISSING" <=> k = 0
       /\ ds = "TOO_SHORT" <=> (1 <= k /\ k <= 49)
       /\ ds = "OK" <=> (50 <= k /\ k <= 160)
       /\ ds = "TOO_LONG" <=> k > 160

\* a padded title of 30 characters found OK beside a padded description of
\* 161 characters found TOO_LONG
C10_Witness ==
  /\ result # NoCall
  /\ arg.padded
  /\ result.value.title_len = 30 /\ result.value.title_status = "OK"
  /\ result.value.meta_desc_len = 161 /\ result.value.meta_desc_status = "TOO_LONG"

(***************************************************************************)
(* audit_html called on pages with a canonical link                        *)
(***************************************************************************)
\* URLs and canonical hrefs end in up to this many slashes
MaxSlashes == 2

Slashes(n) == [i \in 1..n |-> "/"]

\* what the sample URLs and hrefs are before their trailing slashes
CanonicalBases == {<<>>, UrlA, UrlC}

\* the page at a URL whose canonical link (when it has one) is href
CanonicalPage(hasCanon, href) ==
  Page(300, TRUE, Chars(30), TRUE, Chars(50), hasCanon, href, 1, {}, <<>>, <<>>)

CanonicalInit ==
  /\ NoRun
  /\ arg \in [url : {b \o Slashes(n) : b \in CanonicalBases \ {<<>>}, n \in 0..MaxSlashes},
              hasCanon : BOOLEAN,
              href : {pad \o b \o Slashes(n) \o pad :
                        pad \in {<<>>, <<" ">>}, b \in CanonicalBases,
                        n \in 0..MaxSlashes}]
  /\ result = NoCall

CallAuditCanonical ==
  /\ result = NoCall
  /\ result' = [fn |-> "audit_html",
                value |-> audit_html(arg.url, CanonicalPage(arg.hasCanon, arg.href),
                                     RootDomain(UrlA))]
  /\ UNCHANGED <<runVars, arg>>

\* audit_html called on every sample page with a canonical link
CanonicalSpec == CanonicalInit /\ [][CallAuditCanonical]_vars

\* the href as the page gives it: nothing without the link or its href
GivenHref == IF arg.hasCanon THEN arg.href ELSE <<>>

\* s without the white space around it: the part between its first and its
\* last character that is no white space
Trimmed(s) ==
  LET inked == {i \in 1..Len(s) : s[i] # " "}
  IN IF inked = {} THEN <<>>
     ELSE SubSeq(s, CHOOSE i \in inked : \A k \in inked : i <= k,
                    CHOOSE j \in inked : \A k \in inked : k <= j)

\* s without the slashes it ends in: its longest prefix not ending in a slash
WithoutTrailingSlashes(s) ==
  LET ends == {k \in 0..Len(s) :
                 /\ k > 0 => s[k] # "/"
                 /\ \A i \in (k + 1)..Len(s) : s[i] = "/"}
  IN SubSeq(s, 1, CHOOSE k \in ends : TRUE)

\* C11: canonical_status is MISSING iff the trimmed canonical href is empty;
\* otherwise it is SELF exactly when the href without its trailing slashes
\* equals the audited URL without its trailing slashes, and OTHER for every
\* other non-empty href.
C11_CanonicalStatus ==
  result # NoCall =>
    LET href == Trimmed(GivenHref)
        status == result.value.canonical_status
        same == WithoutTrailingSlashes(href) = WithoutTrailingSlashes(arg.url)
    IN /\ result.value.canonical_link = href
       /\ status \in {"MISSING", "SELF", "OTHER"}
       /\ status = "MISSING" <=> href = <<>>
       /\ status = "SELF" <=> (href # <<>> /\ same)
       /\ status = "OTHER" <=> (href # <<>> /\ ~same)

\* a padded canonical href ending in a slash, on a page whose URL has none,
\* found SELF
C11_Witness ==
  /\ result # NoCall
  /\ arg.hasCanon
  /\ arg.href = <<" ">> \o UrlC \o <<"/", " ">>
  /\ arg.url = UrlC
  /\ result.value.canonical_status = "SELF"

(***************************************************************************)
(* audit_html called on pages with anchors                                 *)
(***************************************************************************)
\* a page has up to this many a elements
MaxAnchors == 2

NoHref == <<>>
BareHash == <<"#">>
HashTop == <<"#", "top">>
HashNope == <<"#", "nope">>
MailTo == <<"mailto:", "x@a.io">>
TelTo == <<"tel:", "123">>
JsHref == <<"javascript:", "void(0)">>
RelativeHref == <<"/p">>
OwnHref == <<"http:", "//", "a.io", "/p">>
WwwHref == <<"https:", "//", "www", ".", "a.io", "/p">>
UpperHref == <<"http:", "//", "WWW", ".", "A.IO", "/p">>
SubHref == <<"http:", "//", "sub", ".", "a.io", "/p">>
LookalikeHref == <<"http:", "//", "not", "a.io", "/p">>
OtherHref == <<"http:", "//", "b.io", "/p">>
SchemelessHref == <<"//", "b.io", "/p">>

SampleHrefs ==
  {NoHref, BareHash, HashTop, HashNope, MailTo, TelTo, JsHref, RelativeHref,
   OwnHref, WwwHref, UpperHref, SubHref, LookalikeHref, OtherHref, SchemelessHref}

\* the ids the elements of a sample page carry
SampleIds == {{}, {<<"top">>}}

\* the domains of the sample sitemaps the pages are audited for
SampleDomains == {RootDomain(UrlA), RootDomain(<<"http:", "//", "www", ".", "b.io", "/b", ".xml">>)}

AnchorLists == UNION {[1..n -> SampleHrefs] : n \in 0..MaxAnchors}

LinkPage(anchors, ids) ==
  Page(300, TRUE, Chars(30), TRUE, Chars(50), FALSE, <<>>, 1, ids, anchors, <<>>)

LinkInit ==
  /\ NoRun
  /\ arg \in [anchors : AnchorLists, ids : SampleIds, domain : SampleDomains]
  /\ result = NoCall

CallAuditLinks ==
  /\ result = NoCall
  /\ result' = [fn |-> "audit_html",
                value |-> audit_html(UrlC, LinkPage(arg.anchors, arg.ids), arg.domain)]
  /\ UNCHANGED <<runVars, arg>>

\* audit_html called on every sample page with anchors
LinkSpec == LinkInit /\ [][CallAuditLinks]_vars

\* the positions of the anchors whose href begins with #
HashAnchors == {i \in DOMAIN arg.anchors : arg.anchors[i] # <<>> /\ arg.anchors[i][1] = "#"}

\* the text after the # of a href that begins with #
Fragment(href) == SubSeq(href, 2, Len(href))

\* C12: broken_anchors is the number of anchors whose href begins with #, has
\* a non-empty fragment after it, and whose fragment is the id of no element;
\* an anchor with href # alone and an anchor whose fragment is an id of the
\* document are never counted.
C12_BrokenAnchors ==
  result # NoCall =>
    LET broken == {i \in HashAnchors :
                     /\ Fragment(arg.anchors[i]) # <<>>
                     /\ Fragment(arg.anchors[i]) \notin arg.ids}
    IN /\ result.value.broken_anchors = Cardinality(broken)
       /\ (\A i \in DOMAIN arg.anchors :
              \/ arg.anchors[i] = BareHash
              \/ i \in HashAnchors /\ Fragment(arg.anchors[i]) \in arg.ids)
            => result.value.broken_anchors = 0

\* a page with the id top and the anchors # and #top: none of them broken
C12_Witness ==
  /\ result # NoCall
  /\ arg.anchors = <<BareHash, HashTop>>
  /\ arg.ids = {<<"top">>}
  /\ result.value.broken_anchors = 0

\* the host of each sample href, lower-cased and without a leading www.
\* (written out by hand: "" for a href without a host)
HostOf(href) ==
  CASE href \in {OwnHref, WwwHref, UpperHref} -> "a.io"
    [] href = SubHref -> "sub.a.io"
    [] href = LookalikeHref -> "nota.io"
    [] href \in {OtherHref, SchemelessHref} -> "b.io"
    [] OTHER -> ""

\* the hosts that are the domain or one of its subdomains (by hand)
HostsWithin(domain) ==
  CASE domain = <<"a.io">> -> {"a.io", "sub.a.io"}
    [] domain = <<"b.io">> -> {"b.io"}

\* the anchors that are classified: a non-empty href that begins with none
\* of mailto:, tel:, javascript: and #
Classified == {i \in DOMAIN arg.anchors :
                 /\ arg.anchors[i] # <<>>
                 /\ arg.anchors[i][1] \notin {"mailto:", "tel:", "javascript:", "#"}}

\* C18: every classified anchor is counted once, as internal when its host is
\* empty, the root domain or a subdomain of it and as external otherwise; the
\* skipped anchors and the # anchors are counted by neither.
C18_LinkClassification ==
  result # NoCall =>
    LET within == {i \in Classified :
                     \/ HostOf(arg.anchors[i]) = ""
                     \/ HostOf(arg.anchors[i]) \in HostsWithin(arg.domain)}
    IN /\ result.value.internal_links = Cardinality(within)
       /\ result.value.external_links = Cardinality(Classified \ within)
       /\ result.value.internal_links + result.value.external_links
            = Cardinality(Classified)

\* a subdomain link and a link to a host that only ends in the domain's
\* letters: one internal, one external
C18_Witness ==
  /\ result # NoCall
  /\ arg.anchors = <<SubHref, LookalikeHref>>
  /\ arg.domain = <<"a.io">>
  /\ result.value.internal_links = 1
  /\ result.value.external_links = 1

(***************************************************************************)
(* The order of resolution                                                 *)
(***************************************************************************)
\* the place at which a URL was first appended to the queue
FirstEnq(u) == CHOOSE p \in 1..Len(enqLog) :
                 enqLog[p] = u /\ \A q \in 1..(p - 1) : enqLog[q] # u

\* the places at which a URL was fetched as a sitemap node
FetchPlaces(u) == {i \in 1..Len(nodeLog) : nodeLog[i].url = u}

\* u was fetched, and every fetch of t came after a fetch of u
FetchedBefore(u, t) ==
  /\ FetchPlaces(u) # {}
  /\ \A j \in FetchPlaces(t) : \E i \in FetchPlaces(u) : i < j

RECURSIVE EnqueuedUpTo(_)
\* the length of the queue's history after the first n nodes: the root and
\* what each of the nodes appended
EnqueuedUpTo(n) == IF n = 0 THEN 1 ELSE EnqueuedUpTo(n - 1) + nodeLog[n].enq

\* the node whose processing appended place p > 1 of the queue's history
Discoverer(p) == CHOOSE n \in 1..Len(nodeLog) :
                   EnqueuedUpTo(n - 1) < p /\ p <= EnqueuedUpTo(n)

RECURSIVE DepthAt(_)
\* the nesting depth at which place p of the queue's history was appended
DepthAt(p) == IF p = 1 THEN 0
              ELSE 1 + DepthAt(FirstEnq(nodeLog[Discoverer(p)].url))

\* the nesting depth at which a URL was first discovered
Depth(u) == DepthAt(FirstEnq(u))

\* C13: sitemap nodes are fetched in the order of their first appending to
\* the queue: a URL first appended before a fetched URL was fetched before
\* it; so a sitemap at a smaller nesting depth is fetched before any sitemap
\* first discovered at a greater depth.
C13_FifoOrder ==
  pc = "resolve" \/ pc = "returned" =>
    /\ Len(enqLog) = EnqueuedUpTo(Len(nodeLog))
    /\ \A i \in 1..Len(nodeLog) : nodeLog[i].url \in Range(enqLog)
    /\ LET first == [u \in Range(enqLog) |-> FirstEnq(u)]
           depth == [u \in Range(enqLog) |-> Depth(u)]
       IN \A x, y \in Range(enqLog) :
            FetchPlaces(y) # {} =>
              /\ first[x] < first[y] => FetchedBefore(x, y)
              /\ depth[x] < depth[y] => FetchedBefore(x, y)
    /\ pc = "returned" => \A x \in Range(enqLog) : FetchPlaces(x) # {}

\* a finished resolution of three levels, in which the root's second child
\* was fetched before the child of its first child
C13_Witness ==
  /\ pc = "returned"
  /\ Len(nodeLog) = 4
  /\ nodeLog[1].enq = 2
  /\ nodeLog[2].enq = 1
  /\ Depth(nodeLog[2].url) = 1
  /\ Depth(nodeLog[3].url) = 1
  /\ Depth(nodeLog[4].url) = 2

(***************************************************************************)
(* Fetch attempts over a whole run                                         *)
(***************************************************************************)
\* C14 as stated: over a whole run no URL is requested more than once,
\* whether as a sitemap node, as a page, or as both.
C14_SingleFetchPerUrl ==
  \A i, j \in 1..Len(fetchLog) : fetchLog[i][2] = fetchLog[j][2] => i = j

\* C14, amended: over a whole run a URL is requested at most once as a
\* sitemap node and at most once as a page, and the pages requested are the
\* resolved URLs in their order, so no failed fetch is retried; a URL that is
\* both a sitemap node and a resolved page is requested once in each role.
C14_SingleFetchPerUrlAndRole ==
  /\ \A i, j \in 1..Len(fetchLog) : fetchLog[i] = fetchLog[j] => i = j
  /\ Len(PageFetches) <= Len(urls)
  /\ \A i \in 1..Len(PageFetches) : PageFetches[i][2] = urls[i]
  /\ Len(pageLog) = Len(PageFetches)
  /\ \A i \in 1..Len(pageLog) : pageLog[i].url = PageFetches[i][2]

\* a finished run in which a sitemap node was also a resolved page, fetched
\* once in each role, and in which a page fetch failed
C14_Witness ==
  /\ pc = "done"
  /\ \E i, j \in 1..Len(fetchLog) :
       /\ fetchLog[i][1] = "sitemap"
       /\ fetchLog[j][1] = "page"
       /\ fetchLog[i][2] = fetchLog[j][2]
  /\ \E i \in 1..Len(pageLog) : pageLog[i].code # 200

(***************************************************************************)
(* The rows of the report                                                  *)
(***************************************************************************)
\* the rows of the written report that are about a URL
RowsAbout(u) == {i \in 1..Len(ReportRows) : ReportRows[i][3] = u}

\* C15: a run whose resolution returned a non-empty set ends with a written
\* report that has exactly one row for each resolved page URL and no other
\* row; a page whose fetch failed has its row like any other and the pages
\* behind it have theirs.
C15_OneRowPerResolvedUrl ==
  /\ (pc = "done" /\ urls # <<>>) => out.written
  /\ out.written =>
       /\ pc = "done"
       /\ Len(ReportRows) = Len(urls)
       /\ \A u \in Range(urls) : Cardinality(RowsAbout(u)) = 1
       /\ \A i \in 1..Len(ReportRows) : ReportRows[i][3] \in Range(urls)
       /\ \A i \in 1..Len(pageLog) :
            \E j \in RowsAbout(pageLog[i].url) : ReportRows[j][2] = pageLog[i].code

\* a written report of three rows for a run whose first page failed to fetch
\* and whose later pages were fetched
C15_Witness ==
  /\ out.written
  /\ Len(urls) = 3
  /\ Len(ReportRows) = 3
  /\ pageLog[1].code # 200
  /\ pageLog[2].code = 200 /\ ~pageLog[2].empty
  /\ pageLog[3].code = 200 /\ ~pageLog[3].empty

(***************************************************************************)
(* Thin content                                                            *)
(***************************************************************************)
\* C16 as stated: in every record of a run, of a fetched page and of a page
\* whose fetch failed alike, is_thin_content is set exactly when word_count
\* is below 300.
C16_ThinContentIffFewWords ==
  \A i \in 1..Len(rows) :
    rows[i].is_thin_content = 1 <=> rows[i].word_count < 300

(***************************************************************************)
(* Empty loc texts                                                         *)
(***************************************************************************)
\* C17 as stated: every URL emitted as a page URL and every URL enqueued as
\* a nested sitemap is the non-empty trimmed text of a loc element of a
\* fetched document: the empty string is never emitted or enqueued, a loc of
\* white space only included.
C17_NoEmptyUrlEmittedOrEnqueued ==
  \A u \in Range(final_urls) \cup NestedUrls :
    /\ u # <<>>
    /\ \E i \in 1..Len(nodeLog) : u \in nodeLog[i].listed

(***************************************************************************)
(* The visited set and the origin of the result                            *)
(***************************************************************************)
RECURSIVE EmittedUpTo(_)
\* how many page URLs the first n nodes emitted
EmittedUpTo(n) == IF n = 0 THEN 0 ELSE EmittedUpTo(n - 1) + nodeLog[n].emitted

\* the nodes that were skipped: the fetch failed or the body did not parse
SkippedNodes == NodesOfKind({"failed", "malformed"})

\* C19: during a resolution the visited set is exactly the set of URLs that
\* were dequeued and processed; every URL of the result is a trimmed loc text
\* of a document fetched with status 200 and a non-empty body that parsed;
\* and a skipped node emits no page URL and enqueues no sitemap, the queue
\* and the result growing by what the processed nodes added and nothing else.
C19_VisitedAndOrigin ==
  pc = "resolve" \/ pc = "returned" =>
    /\ seen = {nodeLog[i].url : i \in 1..Len(nodeLog)}
    /\ seen \subseteq Range(enqLog)
    /\ \A u \in Range(final_urls) \cup Range(urls) :
         \E i \in NodesOfKind({"urlset", "other"}) : u \in nodeLog[i].listed
    /\ \A i \in SkippedNodes : nodeLog[i].emitted = 0 /\ nodeLog[i].enq = 0
    /\ Len(final_urls) = EmittedUpTo(Len(nodeLog))
    /\ Len(enqLog) = EnqueuedUpTo(Len(nodeLog))

\* a finished resolution with a skipped node, a node that emitted page URLs,
\* and a URL that was dequeued a second time and passed over
C19_Witness ==
  /\ pc = "returned"
  /\ urls # <<>>
  /\ SkippedNodes # {}
  /\ \E i \in NodesOfKind({"urlset", "other"}) : nodeLog[i].emitted > 0
  /\ Len(enqLog) > Len(nodeLog)
====
